---- MODULE Spec2Model ----
(***************************************************************************)
(* The module lifecycle orchestrator of mbjs (lib/mbjs-module/index.js):   *)
(* class Application with require / init / start / stop / module and the   *)
(* SIGINT handler signalInterrupt, as a state machine.                     *)
(*                                                                         *)
(* One action is one synchronous run of JavaScript on the event loop (an   *)
(* API call, a promise reaction, a timer callback, a signal delivery)      *)
(* followed by the promise jobs it makes runnable.                         *)
(***************************************************************************)
EXTENDS Integers, Sequences, FiniteSets, TLC

\* ------------------------------------------------------------------ bounds
\* calls of require and init in one behaviour
MaxCalls == 2
\* calls of start, _start, stop and _stop in one behaviour
MaxRuns == 1
\* length of an explicit names argument
MaxArgLen == 2
\* SIGINT deliveries in one behaviour
MaxSignals == 2

\* --------------------------------------------------------------- universe
\* Application.mainAppName
mainAppName == "mbjs-app"
\* names for which require(resolve(srcdir, sec)) finds a module
Resolvable == {mainAppName, "a", "b"}
\* "x" has no file under srcdir
Names == Resolvable \cup {"x"}
\* function names used with module(name, func)
Funcs == {"setCli", "setArgv"}
\* a property an instance does not have reads undefined
Undefined == <<>>
\* the values of a timeout attribute: undefined, or <<n>> for n milliseconds
TimeoutVals == {Undefined, <<0>>, <<500>>}
\* what a module class gives its instances: optional start, stop, setCli, and
\* the attributes stopTimeout and stopTimeoutMs; throws: its constructor fails
ClassKinds ==
  [start : BOOLEAN, stop : BOOLEAN, setCli : BOOLEAN,
   stopTimeout : TimeoutVals, stopTimeoutMs : TimeoutVals, throws : BOOLEAN]
\* the classes that declare neither attribute and whose constructor returns
PlainKinds ==
  {k \in ClassKinds :
     k.stopTimeout = Undefined /\ k.stopTimeoutMs = Undefined /\ ~k.throws}

VARIABLES
  appName,      \* config[mainAppName].name, as characters
  classes,      \* the module files under srcdir: name -> what the class provides
  config,       \* this.config: name -> configuration object (by identity)
  modules,      \* this.modules: the list of module names
  AllModules,   \* this.AllModules: name -> class
  allModules,   \* this.allModules: name -> instance
  listeners,    \* how many times signalIntFunc is bound on SIGINT
  starts,       \* the Promise.all joins made by _start, oldest first
  stops,        \* the Promise.allSettled joins made by _stop, oldest first
  proc,         \* the process: running, exited (code), crashed, killed
  ret,          \* the outcome of the last API call
  mainPm,       \* the promise of Application.main and the join it awaits
  ncalls,       \* calls of require and init made so far
  nruns,        \* calls of start, _start, stop and _stop made so far
  nsignals      \* SIGINTs delivered so far

vars == <<appName, classes, config, modules, AllModules, allModules, listeners,
          starts, stops, proc, ret, mainPm, ncalls, nruns, nsignals>>

\* ---------------------------------------------------------------- helpers
Range(s) == {s[i] : i \in 1..Len(s)}

NoDup(s) == \A i, j \in 1..Len(s) : s[i] = s[j] => i = j

Put(f, k, v) == [x \in DOMAIN f \cup {k} |-> IF x = k THEN v ELSE f[x]]

Min(S) == CHOOSE x \in S : \A y \in S : x <= y

\* sequences over S of length 1..n
SeqsUpTo(S, n) == UNION {[1..k -> S] : k \in 1..n}

\* the names argument of an API call: omitted, or an explicit array
NameArgs == {[given |-> FALSE, names |-> <<>>]} \cup
            {[given |-> TRUE, names |-> s] : s \in {<<>>} \cup SeqsUpTo(Names, MaxArgLen)}

\* s names a before b, if it names b
InOrder(s, a, b) ==
  \A j \in 1..Len(s) : s[j] = b => \E i \in 1..j : s[i] = a

\* Object.keys(config) of configurations that can name a module with no file
\* under srcdir
BootKeys == {s \in SeqsUpTo({mainAppName, "a", "x"}, 3) : NoDup(s) /\ mainAppName \in Range(s)}

\* Object.keys(config) of the configurations the application is built with:
\* the main-app key is always present, at any place, and keys are unique. The
\* module names are interchangeable, so the first module key is "a".
InitKeys == {s \in SeqsUpTo(Resolvable, Cardinality(Resolvable)) :
               NoDup(s) /\ mainAppName \in Range(s) /\ InOrder(s, "a", "b")}

\* the names argument left out
NoArg == [given |-> FALSE, names |-> <<>>]

\* `modules || this.modules` (an array, even an empty one, is truthy)
namesOr(arg, mods) == IF arg.given THEN arg.names ELSE mods

Alive == proc.state = "running"

\* ----------------------------------------------------------------- errors
\* the name of the application's package, as characters
AppName == <<"m", "b", "-", "j", "s">>

\* other names a package can have: no hyphen, several hyphens, capitals
AppNames ==
  {AppName, <<"a">>, <<"a", "-", "b", "-", "c">>, <<"A", "-", "b">>, <<"a", "_", "-", "S">>}

\* String.prototype.toUpperCase on the characters used here
toUpperCase(c) ==
  CASE c = "m" -> "M" [] c = "b" -> "B" [] c = "j" -> "J" [] c = "s" -> "S"
    [] c = "a" -> "A" [] c = "c" -> "C"
    [] OTHER -> c

\* faulty variant: only the first hyphen is replaced (.replace('-', '_'))
mainModuleCodeUpper_firstHyphen ==
  [i \in 1..Len(appName) |->
     toUpperCase(IF appName[i] = "-" /\ \A j \in 1..(i - 1) : appName[j] # "-"
                 THEN "_" ELSE appName[i])]

\* .split('-').join('_').toUpperCase()
mainModuleCodeUpper ==
  [i \in 1..Len(appName) |-> toUpperCase(IF appName[i] = "-" THEN "_" ELSE appName[i])]

NoError == [kind |-> "none", prefix |-> <<>>, code |-> "", of |-> ""]

\* the Error built by throwError: er.code = `${mainModuleCodeUpper}_${errCode}`
AppError(errCode) ==
  [kind |-> "Error", prefix |-> mainModuleCodeUpper, code |-> errCode, of |-> ""]

\* a TypeError raised by the runtime (property of undefined, not a function, ...)
TypeError == [kind |-> "TypeError", prefix |-> <<>>, code |-> "", of |-> ""]

\* node's error for require() of a path with no module
ResolveError(sec) ==
  [kind |-> "Error", prefix |-> <<>>, code |-> "MODULE_NOT_FOUND", of |-> sec]

\* the error a module's own start() or stop() fails with
ModuleError(sec) == [kind |-> "Error", prefix |-> <<>>, code |-> "MODULE", of |-> sec]

\* throwError(errCode, msg, justReturn): returned when justReturn, else raised
throwError(errCode, justReturn) ==
  [returned |-> IF justReturn THEN AppError(errCode) ELSE NoError,
   raised   |-> IF justReturn THEN NoError ELSE AppError(errCode)]

\* the codes modules and the application raise errors with
ErrCodes ==
  {"MODULE_NOT_FOUND", "MODULE_FUNCTION_NOT_FOUND", "STOP_TIMED_OUT",
   "INVALID_BUILD_PARAMETER"}

\* a module calls the throwError the application bound for it
callThrowError(errCode, justReturn) ==
  /\ Alive
  /\ ret' = [op |-> "throwError", errCode |-> errCode, justReturn |-> justReturn,
             raised |-> throwError(errCode, justReturn).raised,
             returned |-> throwError(errCode, justReturn).returned]
  /\ UNCHANGED <<appName, classes, config, modules, AllModules, allModules, listeners,
                 starts, stops, proc, mainPm, ncalls, nruns, nsignals>>

\* ---------------------------------------------------------------- require
\* faulty variant: the guard of require never finds the name
hasConfig_never(cfg, sec) == FALSE

\* Object.hasOwnProperty.call(this.config, sec)
hasConfig(cfg, sec) == sec \in DOMAIN cfg

\* faulty variant: require catches the error of a name with no file and goes on
RECURSIVE requireEach_skipUnresolved(_, _, _, _)
requireEach_skipUnresolved(nn, i, conf, st) ==
  IF i > Len(nn) THEN st
  ELSE LET sec == nn[i]
           s1 == IF ~hasConfig(st.config, sec)
                 THEN [st EXCEPT !.config = Put(@, sec, conf),
                                 !.modules = Append(@, sec)]
                 ELSE st
       IN  requireEach_skipUnresolved(nn, i + 1, conf,
             IF sec \in Resolvable THEN [s1 EXCEPT !.AllModules = Put(@, sec, sec)]
             ELSE s1)

\* the forEach body of require, from element i on; st carries config,
\* modules, AllModules and the error that ended the loop
RECURSIVE requireEach(_, _, _, _)
requireEach(nn, i, conf, st) ==
  IF i > Len(nn) THEN st
  ELSE LET sec == nn[i]
           s1 == IF ~hasConfig(st.config, sec)
                 THEN [st EXCEPT !.config = Put(@, sec, conf),
                                 !.modules = Append(@, sec)]
                 ELSE st
       IN  IF sec \in Resolvable
           THEN requireEach(nn, i + 1, conf,
                            [s1 EXCEPT !.AllModules = Put(@, sec, sec)])
           ELSE [s1 EXCEPT !.raised = ResolveError(sec)]

\* the application's registries, as the loops of require and init carry them
registries ==
  [config |-> config, modules |-> modules, AllModules |-> AllModules,
   allModules |-> allModules, raised |-> NoError]

\* require(modules, conf = {}) on the registries st: the default conf is one
\* fresh object per call
requireOn(st, arg, conf) == requireEach(namesOr(arg, st.modules), 1, conf, st)

\* a call's outcome, as `ret` records it
outcome(op, arg, func, raised, shape, items, invoked) ==
  [op |-> op, arg |-> arg, func |-> func, raised |-> raised, shape |-> shape,
   items |-> items, invoked |-> invoked]

require(arg) ==
  /\ Alive /\ ncalls < MaxCalls
  /\ LET st == requireOn(registries, arg, <<"conf", ncalls>>)
     IN  /\ config' = st.config
         /\ modules' = st.modules
         /\ AllModules' = st.AllModules
         /\ ret' = outcome("require", arg, "", st.raised, "undefined", <<>>, <<>>)
  /\ ncalls' = ncalls + 1
  /\ UNCHANGED <<appName, classes, allModules, listeners, starts, stops, proc, mainPm, nsignals, nruns>>

\* ------------------------------------------------------------------- init
\* new this.AllModules[sec](this.config[sec], this)
construct(cls, cfgObj) ==
  [kind |-> "module", cls |-> cls, cfg |-> cfgObj,
   start |-> classes[cls].start, stop |-> classes[cls].stop,
   setCli |-> classes[cls].setCli,
   stopTimeout |-> classes[cls].stopTimeout,
   stopTimeoutMs |-> classes[cls].stopTimeoutMs]

\* allModules[mainAppName] = this: the orchestrator itself, whose appConfig is
\* config[mainAppName] and which has start, stop and setCli
theApp(cfg) ==
  [kind |-> "app", cls |-> "Application", cfg |-> cfg[mainAppName],
   start |-> TRUE, stop |-> TRUE, setCli |-> TRUE,
   stopTimeout |-> Undefined, stopTimeoutMs |-> Undefined]

\* the forEach body of init, from element i on
RECURSIVE initEach(_, _, _)
initEach(nn, i, st) ==
  IF i > Len(nn) THEN st
  ELSE LET sec == nn[i]
       IN  IF sec = mainAppName
           THEN initEach(nn, i + 1, [st EXCEPT !.allModules = Put(@, sec, theApp(st.config))])
           ELSE IF sec \notin DOMAIN st.AllModules
           THEN [st EXCEPT !.raised = TypeError]
           ELSE IF classes[st.AllModules[sec]].throws
           THEN [st EXCEPT !.raised = ModuleError(sec)]
           ELSE initEach(nn, i + 1,
                  [st EXCEPT !.allModules =
                     Put(@, sec, construct(st.AllModules[sec], st.config[sec]))])

\* init(modules) on the registries st
initOn(st, arg) == initEach(namesOr(arg, st.modules), 1, st)

init(arg) ==
  /\ Alive /\ ncalls < MaxCalls
  /\ LET st == initOn(registries, arg)
     IN  /\ allModules' = st.allModules
         /\ ret' = outcome("init", arg, "", st.raised, "undefined", <<>>, <<>>)
  /\ ncalls' = ncalls + 1
  /\ UNCHANGED <<appName, classes, config, modules, AllModules, listeners, starts, stops, proc,
                 mainPm, nsignals, nruns>>

\* ----------------------------------------------------------------- module
\* typeof this.allModules[sec][func] === 'function'
hasFunc(inst, func) == func = "setCli" /\ inst.setCli

\* faulty variant: a missing function is an error in batch mode too
absentIsError_always(isAr) == TRUE

\* `else if (!isAr)`: a missing function is an error for a single name only
absentIsError(isAr) == ~isAr

\* faulty variant: module skips a name with no instance in batch mode
RECURSIVE moduleEach_skipMissing(_, _, _, _, _, _)
moduleEach_skipMissing(am, nn, i, func, isAr, st) ==
  IF i > Len(nn) THEN st
  ELSE LET sec == nn[i]
       IN  IF sec \notin DOMAIN am
           THEN IF isAr THEN moduleEach_skipMissing(am, nn, i + 1, func, isAr, st)
                ELSE [st EXCEPT !.raised = throwError("MODULE_NOT_FOUND", FALSE).raised]
           ELSE IF hasFunc(am[sec], func)
           THEN moduleEach_skipMissing(am, nn, i + 1, func, isAr,
                  [st EXCEPT !.results = Append(@, <<sec, func>>),
                             !.invoked = Append(@, sec)])
           ELSE IF absentIsError(isAr)
           THEN [st EXCEPT !.raised = throwError("MODULE_FUNCTION_NOT_FOUND", FALSE).raised]
           ELSE moduleEach_skipMissing(am, nn, i + 1, func, isAr, st)

\* the forEach body of module(name, func), from element i on, over the
\* instance registry am; st carries the results pushed, the names invoked and
\* the error that ended the loop
RECURSIVE moduleEach(_, _, _, _, _, _)
moduleEach(am, nn, i, func, isAr, st) ==
  IF i > Len(nn) THEN st
  ELSE LET sec == nn[i]
       IN  IF sec \notin DOMAIN am
           THEN [st EXCEPT !.raised = throwError("MODULE_NOT_FOUND", FALSE).raised]
           ELSE IF hasFunc(am[sec], func)
           THEN moduleEach(am, nn, i + 1, func, isAr,
                  [st EXCEPT !.results = Append(@, <<sec, func>>),
                             !.invoked = Append(@, sec)])
           ELSE IF absentIsError(isAr)
           THEN [st EXCEPT !.raised = throwError("MODULE_FUNCTION_NOT_FOUND", FALSE).raised]
           ELSE moduleEach(am, nn, i + 1, func, isAr, st)

\* faulty variant: module returns the results array in single mode too
moduleReturn_array(isAr, res) == [shape |-> "array", items |-> res]

\* `return isAr ? results : results.pop()`
moduleReturn(isAr, res) ==
  IF isAr THEN [shape |-> "array", items |-> res]
  ELSE IF Len(res) = 0 THEN [shape |-> "undefined", items |-> <<>>]
  ELSE [shape |-> "value", items |-> <<res[Len(res)]>>]

\* module(name, func) over the instance registry am
moduleOn(am, isAr, nn, func) ==
  LET st == moduleEach(am, nn, 1, func, isAr,
              [results |-> <<>>, invoked |-> <<>>, raised |-> NoError])
      rv == moduleReturn(isAr, st.results)
  IN  outcome("module", [given |-> isAr, names |-> nn], func, st.raised,
              IF st.raised = NoError THEN rv.shape ELSE "undefined",
              IF st.raised = NoError THEN rv.items ELSE <<>>,
              st.invoked)

\* module(name, func): name is one string (isAr false) or an array of names.
\* It changes nothing of the application, so it is not counted in ncalls.
module(isAr, nn, func) ==
  /\ Alive
  /\ isAr \/ Len(nn) = 1
  /\ ret' = moduleOn(allModules, isAr, nn, func)
  /\ UNCHANGED <<appName, classes, config, modules, AllModules, allModules, listeners, starts, stops,
                 proc, mainPm, ncalls, nruns, nsignals>>

\* ----------------------------------------------------------------- _start
\* faulty variant: _start keeps the main app's name in the list
startFilter_all(am, nn) ==
  [raised |-> IF \E i \in 1..Len(nn) : nn[i] # mainAppName /\ nn[i] \notin DOMAIN am
              THEN TypeError ELSE NoError,
   secs   |-> SelectSeq(nn, LAMBDA sec : sec \in DOMAIN am /\ am[sec].start)]

\* the filter of _start over the instance registry am: the names kept, or a
\* TypeError when the instance of a name other than the main app's is undefined
startFilter(am, nn) ==
  [raised |-> IF \E i \in 1..Len(nn) : nn[i] # mainAppName /\ nn[i] \notin DOMAIN am
              THEN TypeError ELSE NoError,
   secs   |-> SelectSeq(nn, LAMBDA sec : sec # mainAppName /\ sec \in DOMAIN am
                                          /\ am[sec].start)]

\* faulty variant: the join waits for every promise, as Promise.allSettled does
promiseAll_settled(run, i, res) ==
  LET st == [run.st EXCEPT ![i] = res]
      all == \A j \in 1..Len(st) : st[j] # "pending"
      bad == {j \in 1..Len(st) : st[j] = "rejected"}
  IN  [run EXCEPT
         !.st = st,
         !.agg = IF ~all THEN "pending" ELSE IF bad = {} THEN "fulfilled" ELSE "rejected",
         !.reason = IF all /\ bad # {} THEN ModuleError(run.secs[Min(bad)]) ELSE NoError]

\* Promise.all: the join `run` after its module promise i settled with `res`
promiseAll(run, i, res) ==
  LET st == [run.st EXCEPT ![i] = res]
  IN  [run EXCEPT
         !.st = st,
         !.agg = IF run.agg # "pending" THEN run.agg
                 ELSE IF res = "rejected" THEN "rejected"
                 ELSE IF \A j \in 1..Len(st) : st[j] = "fulfilled" THEN "fulfilled"
                 ELSE "pending",
         !.reason = IF run.agg = "pending" /\ res = "rejected"
                    THEN ModuleError(run.secs[i]) ELSE run.reason]

\* the join Promise.all makes of the promises the start() of secs returned
newJoin(secs) ==
  [secs |-> secs, st |-> [i \in 1..Len(secs) |-> "pending"],
   agg |-> IF Len(secs) = 0 THEN "fulfilled" ELSE "pending", reason |-> NoError]

\* _start(modules): threw = 0, or the position of the first module whose start()
\* throws synchronously: the starts up to it have been invoked, no join is made
startRun(am, nn, threw) ==
  LET f == startFilter(am, nn)
  IN  IF f.raised # NoError
      THEN [raised |-> f.raised, made |-> FALSE, invoked |-> <<>>, run |-> newJoin(<<>>)]
      ELSE IF threw \in 1..Len(f.secs)
      THEN [raised |-> ModuleError(f.secs[threw]), made |-> FALSE,
            invoked |-> SubSeq(f.secs, 1, threw), run |-> newJoin(<<>>)]
      ELSE [raised |-> NoError, made |-> TRUE, invoked |-> f.secs, run |-> newJoin(f.secs)]

\* the positions at which a start() of _start(nn) can throw (0: none does)
startThrows(am, nn) == 0..Len(startFilter(am, nn).secs)

\* what a call of _start leaves behind: the join and the call's outcome
startEffect(arg, threw, op) ==
  LET r == startRun(allModules, namesOr(arg, modules), threw)
  IN  /\ starts' = IF r.made THEN Append(starts, r.run) ELSE starts
      /\ ret' = outcome(op, arg, "", r.raised,
                        IF r.raised = NoError THEN "promise" ELSE "undefined",
                        <<>>, r.invoked)

\* faulty variant: the SIGINT handler is bound after _start() has returned
start_bindLast ==
  /\ Alive /\ nruns < MaxRuns
  /\ \E threw \in startThrows(allModules, modules) : startEffect(NoArg, threw, "start")
  /\ listeners' = IF ret'.raised = NoError THEN listeners + 1 ELSE listeners
  /\ nruns' = nruns + 1
  /\ UNCHANGED <<appName, classes, config, modules, AllModules, allModules, stops, proc, mainPm,
                 nsignals, ncalls>>

\* start(): bind the SIGINT handler, then _start()
start ==
  /\ Alive /\ nruns < MaxRuns
  /\ listeners' = listeners + 1
  /\ \E threw \in startThrows(allModules, modules) : startEffect(NoArg, threw, "start")
  /\ nruns' = nruns + 1
  /\ UNCHANGED <<appName, classes, config, modules, AllModules, allModules, stops, proc, mainPm,
                 nsignals, ncalls>>

\* _start(modules) called directly
startNames(arg) ==
  /\ Alive /\ nruns < MaxRuns
  /\ \E threw \in startThrows(allModules, namesOr(arg, modules)) :
        startEffect(arg, threw, "_start")
  /\ nruns' = nruns + 1
  /\ UNCHANGED <<appName, classes, config, modules, AllModules, allModules, listeners, stops, proc,
                 mainPm, nsignals, ncalls>>

\* `await app.start()` in main: main settles as the join it awaits does
awaitStart(m, ss) ==
  IF m.state # "awaiting" THEN m
  ELSE IF ss[m.run].agg = "fulfilled" THEN [m EXCEPT !.state = "fulfilled"]
  ELSE IF ss[m.run].agg = "rejected"
  THEN [m EXCEPT !.state = "rejected", !.reason = ss[m.run].reason]
  ELSE m

\* a module's start() promise settles
SettleStart(r, i, res) ==
  /\ Alive
  /\ r \in 1..Len(starts) /\ i \in 1..Len(starts[r].st)
  /\ starts[r].st[i] = "pending"
  /\ starts' = [starts EXCEPT ![r] = promiseAll(@, i, res)]
  /\ mainPm' = awaitStart(mainPm, starts')
  /\ UNCHANGED <<appName, classes, config, modules, AllModules, allModules, listeners, stops, proc,
                 ret, ncalls, nruns, nsignals>>

\* ------------------------------------------------------------------ _stop
\* faulty variant: a module with no stop function is a failure
noStopSlot_rejected(sec) ==
  [sec |-> sec, mod |-> "none", timer |-> "none", tm |-> 0, slot |-> "rejected",
   value |-> "", reason |-> AppError("MODULE_FUNCTION_NOT_FOUND")]

\* the slot of a module with no stop function:
\* Promise.resolve('stop MODULE_FUNCTION_NOT_FOUND')
noStopSlot(sec) ==
  [sec |-> sec, mod |-> "none", timer |-> "none", tm |-> 0, slot |-> "fulfilled",
   value |-> "stop MODULE_FUNCTION_NOT_FOUND", reason |-> NoError]

\* the timeout of stop() when the module sets none, in milliseconds
DefaultStopTimeout == 2000

\* faulty variant: a stopTimeout of 0 counts as not set (`stopTimeout || 2000`)
stopTimeoutOf_falsy(inst) ==
  IF inst.stopTimeout = Undefined \/ inst.stopTimeout = <<0>> THEN DefaultStopTimeout
  ELSE inst.stopTimeout[1]

\* tm = this.allModules[sec].stopTimeout === undefined
\*        ? 2000 : this.allModules[sec].stopTimeout
stopTimeoutOf(inst) ==
  IF inst.stopTimeout = Undefined THEN DefaultStopTimeout ELSE inst.stopTimeout[1]

\* the slot of a module with a stop function, after the executor ran:
\* setTimeout(tmFunc, tm), then stop(); an exception of stop() inside the
\* executor rejects the slot
stopSlot(sec, threw, tm) ==
  [sec |-> sec, mod |-> IF threw THEN "threw" ELSE "pending", timer |-> "armed",
   tm |-> tm,
   slot |-> IF threw THEN "rejected" ELSE "pending",
   value |-> "", reason |-> IF threw THEN ModuleError(sec) ELSE NoError]

\* typeof this.allModules[sec].stop !== 'function'
lacksStop(inst) == ~inst.stop

\* the map callback of _stop for one name
slotOf(am, sec, threw) ==
  IF lacksStop(am[sec]) THEN noStopSlot(sec)
  ELSE stopSlot(sec, threw, stopTimeoutOf(am[sec]))

\* faulty variant: _stop keeps the main app's name in the list
stopFilter_all(nn) == nn

\* the filter of _stop: every name but the main app's
stopFilter(nn) == SelectSeq(nn, LAMBDA sec : sec # mainAppName)

\* _stop(modules) over the instance registry am: T = the positions whose
\* stop() throws synchronously. The map stops with a TypeError at the first
\* name with no instance, after the executors of the names before it have run.
\* The run keeps the list of names it was called with.
stopRun(am, nn, T, sigint) ==
  LET secs == stopFilter(nn)
      miss == {i \in 1..Len(secs) : secs[i] \notin DOMAIN am}
      n    == IF miss = {} THEN Len(secs) ELSE Min(miss) - 1
  IN  [raised |-> IF miss = {} THEN NoError ELSE TypeError,
       run |-> [names |-> nn,
                slots |-> [i \in 1..n |-> slotOf(am, secs[i], i \in T)],
                agg |-> IF miss = {} THEN "pending" ELSE "none",
                sigint |-> sigint /\ miss = {}]]

\* the positions of _stop(nn) whose stop() is invoked
stoppable(am, nn) ==
  LET secs == stopFilter(nn)
  IN  {i \in 1..Len(secs) :
         /\ \A j \in 1..i : secs[j] \in DOMAIN am
         /\ am[secs[i]].stop}

\* the results array Promise.allSettled fulfils with
results(run) ==
  [i \in 1..Len(run.slots) |->
     [status |-> run.slots[i].slot, value |-> run.slots[i].value,
      reason |-> run.slots[i].reason]]

\* every slot of the join has settled
Settled(run) == \A i \in 1..Len(run.slots) : run.slots[i].slot # "pending"

\* signalInterrupt's then-callback:
\*   const successExit = results.find(pm => pm.status !== 'fulfilled')
\*   process.exit(successExit ? 0 : 1)
exitCode(res) ==
  LET successExit == \E i \in 1..Len(res) : res[i].status # "fulfilled"
  IN  IF successExit THEN 0 ELSE 1

\* faulty variant: the join is a Promise.all, which rejects with a rejected slot
drainStops_failFast(ss) ==
  [r \in 1..Len(ss) |->
     IF ss[r].agg # "pending" THEN ss[r]
     ELSE IF \E i \in 1..Len(ss[r].slots) : ss[r].slots[i].slot = "rejected"
     THEN [ss[r] EXCEPT !.agg = "rejected"]
     ELSE IF Settled(ss[r]) THEN [ss[r] EXCEPT !.agg = "fulfilled"]
     ELSE ss[r]]

\* the promise jobs that follow a run of JavaScript: every allSettled join whose
\* slots are all settled fulfils ...
drainStops(ss) ==
  [r \in 1..Len(ss) |->
     IF ss[r].agg = "pending" /\ Settled(ss[r]) THEN [ss[r] EXCEPT !.agg = "fulfilled"]
     ELSE ss[r]]

\* ... and the then-callback of the oldest such join made by signalInterrupt
\* exits the process
drainProc(ss, p) ==
  LET done == {r \in 1..Len(ss) : ss[r].agg = "pending" /\ Settled(ss[r]) /\ ss[r].sigint}
  IN  IF p.state = "running" /\ done # {}
      THEN [state |-> "exited", code |-> exitCode(results(ss[Min(done)])),
            by |-> "signalInterrupt", run |-> Min(done)]
      ELSE p

\* an exception nobody catches ends the process with code 1
uncaught == [state |-> "crashed", code |-> 1, by |-> "uncaughtException", run |-> 0]

\* what a call of _stop leaves behind
stopEffect(arg, T, op) ==
  LET r == stopRun(allModules, namesOr(arg, modules), T, FALSE)
      ss == Append(stops, r.run)
  IN  /\ stops' = drainStops(ss)
      /\ proc' = drainProc(ss, proc)
      /\ ret' = outcome(op, arg, "", r.raised,
                        IF r.raised = NoError THEN "promise" ELSE "undefined", <<>>,
                        SelectSeq([i \in 1..Len(r.run.slots) |-> r.run.slots[i].sec],
                                  LAMBDA sec : allModules[sec].stop))

\* faulty variant: stop() leaves the handler bound
off_noop(n) == n

\* process.off('SIGINT', this.signalIntFunc): removes one binding, if any
off(n) == IF n > 0 THEN n - 1 ELSE 0

\* the bindings left after k runs of signalInterrupt, each calling stop()
RECURSIVE offEach(_, _)
offEach(n, k) == IF k = 0 THEN n ELSE offEach(off(n), k - 1)

\* faulty variant: stop() also empties the instance registry
stop_forgets ==
  /\ Alive /\ nruns < MaxRuns
  /\ listeners' = off(listeners)
  /\ \E T \in SUBSET stoppable(allModules, modules) : stopEffect(NoArg, T, "stop")
  /\ nruns' = nruns + 1
  /\ allModules' = <<>>
  /\ UNCHANGED <<appName, classes, config, modules, AllModules, starts, mainPm, nsignals, ncalls>>

\* stop(): unbind the SIGINT handler, then _stop()
stop ==
  /\ Alive /\ nruns < MaxRuns
  /\ listeners' = off(listeners)
  /\ \E T \in SUBSET stoppable(allModules, modules) : stopEffect(NoArg, T, "stop")
  /\ nruns' = nruns + 1
  /\ UNCHANGED <<appName, classes, config, modules, AllModules, allModules, starts, mainPm, nsignals, ncalls>>

\* _stop(modules) called directly
stopNames(arg) ==
  /\ Alive /\ nruns < MaxRuns
  /\ \E T \in SUBSET stoppable(allModules, namesOr(arg, modules)) :
        stopEffect(arg, T, "_stop")
  /\ nruns' = nruns + 1
  /\ UNCHANGED <<appName, classes, config, modules, AllModules, allModules, listeners, starts,
                 mainPm, nsignals, ncalls>>

\* the value of `this` inside tmFunc, a function () {} called by the timer
timerThis == "Timeout"

\* whether this.throwError is a function for that `this`
hasThrowError(thisArg) == thisArg = "Application"

\* what clearTimeout is given: tmFunc itself, not the handle setTimeout returned
clearTimeoutArg == "tmFunc"

\* clearTimeout(x): clears the timer only when x is its handle
clearTimeout(x, timer) == IF x = "handle" /\ timer = "armed" THEN "cleared" ELSE timer

\* resolve / reject of a slot promise: the first call decides, later ones are ignored
settleSlot(s, status, value, reason) ==
  IF s.slot # "pending" THEN s
  ELSE [s EXCEPT !.slot = status, !.value = value, !.reason = reason]

\* the module's stop() promise settles: the then-handlers of _stop run
SettleStop(r, i, res) ==
  /\ Alive
  /\ r \in 1..Len(stops) /\ i \in 1..Len(stops[r].slots)
  /\ stops[r].slots[i].mod = "pending"
  /\ LET s  == stops[r].slots[i]
         s1 == [s EXCEPT !.mod = res, !.timer = clearTimeout(clearTimeoutArg, @)]
         s2 == IF res = "fulfilled"
               THEN settleSlot(s1, "fulfilled", "stopped", NoError)
               ELSE settleSlot(s1, "rejected", "", ModuleError(s.sec))
         ss == [stops EXCEPT ![r].slots[i] = s2]
     IN  /\ stops' = drainStops(ss)
         /\ proc' = drainProc(ss, proc)
  /\ UNCHANGED <<appName, classes, config, modules, AllModules, allModules, listeners, starts,
                 ret, mainPm, ncalls, nruns, nsignals>>

\* the stop timer of a slot fires: tmFunc runs. With a `this` that has no
\* throwError, `this.throwError(...)` is a TypeError before reject is reached,
\* and nobody catches it.
TimerFires(r, i) ==
  /\ Alive
  /\ r \in 1..Len(stops) /\ i \in 1..Len(stops[r].slots)
  /\ stops[r].slots[i].timer = "armed"
  /\ LET s  == [stops[r].slots[i] EXCEPT !.timer = "fired"]
         ok == hasThrowError(timerThis)
         s2 == IF ok
               THEN settleSlot(s, "rejected", "", throwError("STOP_TIMED_OUT", TRUE).returned)
               ELSE s
         ss == [stops EXCEPT ![r].slots[i] = s2]
     IN  /\ stops' = IF ok THEN drainStops(ss) ELSE ss
         /\ proc' = IF ok THEN drainProc(ss, proc) ELSE uncaught
  /\ UNCHANGED <<appName, classes, config, modules, AllModules, allModules, listeners, starts,
                 ret, mainPm, ncalls, nruns, nsignals>>

\* ----------------------------------------------------------------- SIGINT
\* SIGINT is delivered. With no listener the default disposition ends the
\* process. Otherwise every bound signalIntFunc runs signalInterrupt: stop()
\* unbinds one listener and makes one allSettled join whose then-callback
\* exits; a TypeError of _stop is uncaught and ends the delivery.
Sigint ==
  /\ Alive /\ nsignals < MaxSignals
  /\ nsignals' = nsignals + 1
  /\ IF listeners = 0
     THEN /\ proc' = [state |-> "killed", code |-> 130, by |-> "SIGINT", run |-> 0]
          /\ UNCHANGED <<stops, listeners>>
     ELSE \E Ts \in [1..listeners -> SUBSET stoppable(allModules, modules)] :
            LET rs == [k \in 1..listeners |-> stopRun(allModules, modules, Ts[k], TRUE)]
            IN  IF rs[1].raised # NoError
                THEN /\ stops' = Append(stops, rs[1].run)
                     /\ listeners' = off(listeners)
                     /\ proc' = uncaught
                ELSE LET ss == stops \o [k \in 1..listeners |-> rs[k].run]
                     IN  /\ stops' = drainStops(ss)
                         /\ listeners' = offEach(listeners, listeners)
                         /\ proc' = drainProc(ss, proc)
  /\ UNCHANGED <<appName, classes, config, modules, AllModules, allModules, starts, ret, mainPm,
                 ncalls, nruns>>

\* ------------------------------------------------------------------- main
\* Application.main on the application just constructed: require(), init(),
\* module(app.modules, 'setCli', yargs), then `await app.start()`. An
\* exception of any step rejects main's promise where it stands.
main ==
  /\ Alive /\ ncalls = 0 /\ nruns = 0 /\ mainPm.state = "none"
  /\ \E threw \in 0..Len(modules) :
       LET st1 == requireOn(registries, NoArg, <<"conf", 0>>)
           st2 == IF st1.raised = NoError THEN initOn(st1, NoArg) ELSE st1
           cli == moduleOn(st2.allModules, TRUE, st2.modules, "setCli")
           before == IF st2.raised # NoError THEN st2.raised ELSE cli.raised
           r   == startRun(st2.allModules, st2.modules, threw)
       IN  /\ config' = st2.config
           /\ modules' = st2.modules
           /\ AllModules' = st2.AllModules
           /\ allModules' = st2.allModules
           /\ IF before # NoError
              THEN /\ threw = 0
                   /\ mainPm' = [state |-> "rejected", run |-> 0, reason |-> before]
                   /\ UNCHANGED <<listeners, starts>>
              ELSE /\ threw \in startThrows(st2.allModules, st2.modules)
                   /\ listeners' = listeners + 1
                   /\ starts' = IF r.made THEN Append(starts, r.run) ELSE starts
                   /\ mainPm' = IF r.raised # NoError
                                THEN [state |-> "rejected", run |-> 0, reason |-> r.raised]
                                ELSE awaitStart([state |-> "awaiting", run |-> Len(starts'),
                                                 reason |-> NoError], starts')
           /\ ret' = outcome("main", NoArg, "", NoError, "promise", <<>>,
                             IF before # NoError THEN <<>> ELSE r.invoked)
  /\ UNCHANGED <<appName, classes, stops, proc, ncalls, nruns, nsignals>>

\* ------------------------------------------------------------ constructor
\* new Application(config, srcdir) for a configuration with the keys `keys`,
\* every key with a configuration object of its own, over module classes of
\* the given kinds, for an application with one of the given names
InitFrom(kinds, names, keysets) ==
  /\ appName \in names
  /\ classes \in [Resolvable \ {mainAppName} -> kinds]
  /\ \E keys \in keysets :
        /\ config = [k \in Range(keys) |-> <<"cfg", CHOOSE i \in 1..Len(keys) : keys[i] = k>>]
        /\ modules = keys
  /\ AllModules = <<>>
  /\ allModules = <<>>
  /\ listeners = 0
  /\ starts = <<>>
  /\ stops = <<>>
  /\ proc = [state |-> "running", code |-> 0, by |-> "", run |-> 0]
  /\ ret = outcome("new", NoArg, "", NoError, "undefined", <<>>, <<>>)
  /\ mainPm = [state |-> "none", run |-> 0, reason |-> NoError]
  /\ ncalls = 0
  /\ nruns = 0
  /\ nsignals = 0

\* the same for configurations whose keys all have a file under srcdir
InitNamed(kinds, names) == InitFrom(kinds, names, InitKeys)

\* the same for the application named AppName
InitOf(kinds) == InitNamed(kinds, {AppName})

Init == InitOf(ClassKinds)

\* most entries a join can have
MaxEntries == MaxArgLen + Cardinality(Names)

Next ==
  \/ \E arg \in NameArgs : require(arg)
  \/ \E arg \in NameArgs : init(arg)
  \/ \E isAr \in BOOLEAN, nn \in {<<>>} \cup SeqsUpTo(Names, MaxArgLen), func \in Funcs :
        module(isAr, nn, func)
  \/ main
  \/ start
  \/ \E arg \in NameArgs : startNames(arg)
  \/ stop
  \/ \E arg \in NameArgs : stopNames(arg)
  \/ \E r \in 1..Len(starts), i \in 1..MaxEntries, res \in {"fulfilled", "rejected"} :
        SettleStart(r, i, res)
  \/ \E r \in 1..Len(stops), i \in 1..MaxEntries, res \in {"fulfilled", "rejected"} :
        SettleStop(r, i, res)
  \/ \E r \in 1..Len(stops), i \in 1..MaxEntries : TimerFires(r, i)
  \/ Sigint
  \/ \E errCode \in ErrCodes, justReturn \in BOOLEAN : callThrowError(errCode, justReturn)

Spec == Init /\ [][Next]_vars

\* ---------------------------------------------------------------- loading
\* require and init read no capability of a module class
LoadKinds == {k \in PlainKinds : ~k.start /\ ~k.stop /\ ~k.setCli}

NextLoad ==
  \/ \E arg \in NameArgs : require(arg)
  \/ \E arg \in NameArgs : init(arg)

SpecLoad == InitOf(LoadKinds) /\ [][NextLoad]_vars

\* ------------------------------------------------------------ dispatching
\* module reads setCli alone
DispatchKinds == {k \in PlainKinds : ~k.start /\ ~k.stop}

NextDispatch ==
  \/ main
  \/ \E isAr \in BOOLEAN, nn \in {<<>>} \cup SeqsUpTo(Names, MaxArgLen), func \in Funcs :
        module(isAr, nn, func)

SpecDispatch == InitOf(DispatchKinds) /\ [][NextDispatch]_vars

\* --------------------------------------------------------------- starting
\* _start reads start alone
StartKinds == {k \in PlainKinds : ~k.stop /\ ~k.setCli}

NextStart ==
  \/ main
  \/ start
  \/ \E r \in 1..Len(starts), i \in 1..MaxEntries, res \in {"fulfilled", "rejected"} :
        SettleStart(r, i, res)

SpecStart == InitOf(StartKinds) /\ [][NextStart]_vars

\* --------------------------------------------------------------- stopping
\* _stop reads stop alone
StopKinds == {k \in PlainKinds : ~k.start /\ ~k.setCli}

NextStop ==
  \/ main
  \/ start
  \/ stop
  \/ \E r \in 1..Len(stops), i \in 1..MaxEntries, res \in {"fulfilled", "rejected"} :
        SettleStop(r, i, res)
  \/ \E r \in 1..Len(stops), i \in 1..MaxEntries : TimerFires(r, i)
  \/ Sigint

SpecStop == InitOf(StopKinds) /\ [][NextStop]_vars

\* ----------------------------------------------------------------- errors
\* throwError called by modules, and by module() on behalf of its caller
NextError ==
  \/ main
  \/ \E errCode \in ErrCodes, justReturn \in BOOLEAN : callThrowError(errCode, justReturn)
  \/ \E isAr \in BOOLEAN, nn \in {<<>>} \cup SeqsUpTo(Names, 1), func \in Funcs :
        module(isAr, nn, func)

SpecError == InitNamed(LoadKinds, AppNames) /\ [][NextError]_vars

\* ------------------------------------------------------------ all the API
\* require, init, module, start and stop in any order, on modules that have
\* all of start, stop and setCli or none of them
FrameKinds == {k \in PlainKinds : k.start = k.stop /\ k.stop = k.setCli}

\* the names arguments used: none, a module with a file, a name with none
FrameArgs == {NoArg} \cup {[given |-> TRUE, names |-> <<n>>] : n \in {"a", "x"}}

NextFrame ==
  \/ \E arg \in FrameArgs : require(arg)
  \/ \E arg \in FrameArgs : init(arg)
  \/ \E isAr \in BOOLEAN, nn \in {<<"a">>, <<mainAppName>>} : module(isAr, nn, "setCli")
  \/ start
  \/ stop

SpecFrame ==
  InitFrom(FrameKinds, {AppName}, {<<mainAppName>>, <<"a", mainAppName>>})
    /\ [][NextFrame]_vars

\* ---------------------------------------------------- start and stop by name
\* one call of _start(modules) or _stop(modules) with a list of the caller
ByNameKinds == {k \in PlainKinds : ~k.setCli}

NextByName ==
  \/ main
  \/ \E arg \in NameArgs : nruns = 0 /\ startNames(arg)
  \/ \E arg \in NameArgs : nruns = 0 /\ stopNames(arg)

SpecByName == InitOf(ByNameKinds) /\ [][NextByName]_vars

\* --------------------------------------------------------- a failed start
\* the application starts, a start fails, and SIGINT
NextRollback ==
  \/ main
  \/ start
  \/ \E r \in 1..Len(starts), i \in 1..MaxEntries, res \in {"fulfilled", "rejected"} :
        SettleStart(r, i, res)
  \/ Sigint

SpecRollback == InitOf(ByNameKinds) /\ [][NextRollback]_vars

\* ---------------------------------------------------------------- booting
\* Application.main over configurations that can name a module with no file
\* and classes whose constructor can fail
BootKinds ==
  {k \in ClassKinds : ~k.stop /\ ~k.setCli
     /\ k.stopTimeout = Undefined /\ k.stopTimeoutMs = Undefined}

NextBoot ==
  \/ main
  \/ \E r \in 1..Len(starts), i \in 1..MaxEntries, res \in {"fulfilled", "rejected"} :
        SettleStart(r, i, res)

SpecBoot == InitFrom(BootKinds, {AppName}, BootKeys) /\ [][NextBoot]_vars

\* -------------------------------------------------------------- interrupt
\* the application main has started once, and SIGINT
NextInterrupt ==
  \/ main
  \/ \E r \in 1..Len(stops), i \in 1..MaxEntries, res \in {"fulfilled", "rejected"} :
        SettleStop(r, i, res)
  \/ \E r \in 1..Len(stops), i \in 1..MaxEntries : TimerFires(r, i)
  \/ Sigint

SpecInterrupt == InitOf(StopKinds) /\ [][NextInterrupt]_vars

\* ------------------------------------------------------- stopping by name
\* one call of _stop(modules) with a list of the caller
NextStopNames ==
  \/ main
  \/ \E arg \in NameArgs : stops = <<>> /\ stopNames(arg)
  \/ \E r \in 1..Len(stops), i \in 1..MaxEntries, res \in {"fulfilled", "rejected"} :
        SettleStop(r, i, res)
  \/ \E r \in 1..Len(stops), i \in 1..MaxEntries : TimerFires(r, i)

SpecStopNames == InitOf(StopKinds) /\ [][NextStopNames]_vars

\* ----------------------------------------------------------- stop timeout
\* modules with a stop function and any of the timeout attributes
TimeoutKinds == {k \in ClassKinds : k.stop /\ ~k.start /\ ~k.setCli /\ ~k.throws}

NextTimeout ==
  \/ main
  \/ stop
  \/ \E r \in 1..Len(stops), i \in 1..MaxEntries, res \in {"fulfilled", "rejected"} :
        SettleStop(r, i, res)

SpecTimeout == InitOf(TimeoutKinds) /\ [][NextTimeout]_vars
\* ------------------------------------------------------- stop and SIGINT

\* the slots of every join _stop has made
StopSlots ==
  {<<r, i>> \in (1..Len(stops)) \X (1..MaxEntries) :
     stops[r].agg # "none" /\ i <= Len(stops[r].slots)}

\* C1: when the interrupt handler ends the process, the exit code is 0
\* exactly when every slot of its stop-all is fulfilled, and non-zero when at
\* least one slot is rejected.
C1_ExitZeroIffAllFulfilled ==
  proc.by = "signalInterrupt" =>
    LET res == results(stops[proc.run])
    IN  (proc.code = 0) = (\A i \in 1..Len(res) : res[i].status = "fulfilled")

\* C2: a stop-all always settles once its timers have fired: when no slot
\* of a join is left with a pending stop() and a timer still to fire, the
\* join has settled.
C2_StopAllSettles ==
  \A r \in 1..Len(stops) :
    (/\ stops[r].agg # "none"
     /\ \A i \in 1..Len(stops[r].slots) :
          stops[r].slots[i].slot # "pending" \/ stops[r].slots[i].timer = "fired")
    => stops[r].agg = "fulfilled"

\* C3: a module whose stop() has not settled when its timer fires gets a
\* slot rejected with {PREFIX}_STOP_TIMED_OUT.
C3_TimedOutSlotRejected ==
  \A p \in StopSlots :
    LET s == stops[p[1]].slots[p[2]]
    IN  s.timer = "fired" /\ s.mod = "pending" =>
          s.slot = "rejected" /\ s.reason = AppError("STOP_TIMED_OUT")

\* C4: a module with no stop function has a fulfilled slot from the moment
\* the join is made, with no stop() call and no timer, and a join of such
\* modules only is settled without waiting.
C4_NoStopIsFulfilled ==
  /\ \A p \in StopSlots :
       LET s == stops[p[1]].slots[p[2]]
       IN  lacksStop(allModules[s.sec]) =>
             /\ s.slot = "fulfilled" /\ s.timer = "none" /\ s.mod = "none"
             /\ s.value = "stop MODULE_FUNCTION_NOT_FOUND"
  /\ \A r \in 1..Len(stops) :
       (/\ stops[r].agg # "none"
        /\ \A i \in 1..Len(stops[r].slots) : lacksStop(allModules[stops[r].slots[i].sec]))
       => stops[r].agg = "fulfilled"

\* a join with the fulfilled slot of a module with no stop function next
\* to the pending slot of a module that has one
C4_Witness ==
  \E p \in StopSlots, q \in StopSlots :
    /\ p[1] = q[1]
    /\ lacksStop(allModules[stops[p[1]].slots[p[2]].sec])
    /\ stops[p[1]].slots[p[2]].slot = "fulfilled"
    /\ stops[q[1]].slots[q[2]].mod = "pending"
    /\ stops[q[1]].slots[q[2]].slot = "pending"
    /\ stops[p[1]].agg = "pending"

\* ------------------------------------------------------------------ start

\* C5: the promise of start() fulfils exactly when every start() it invoked
\* has fulfilled, and rejects at the first rejection, with that rejection as
\* its reason, while other starts may still be pending; once settled it
\* never changes.
C5_StartIsAllOrNothing ==
  [][\A r \in 1..Len(starts') :
       LET new == starts'[r]
           n   == Len(new.st)
       IN  /\ (new.agg = "fulfilled") = (\A i \in 1..n : new.st[i] = "fulfilled")
           /\ (new.agg = "rejected") = (\E i \in 1..n : new.st[i] = "rejected")
           /\ r <= Len(starts) =>
                LET old == starts[r]
                IN  /\ old.agg = "fulfilled" => new.agg = "fulfilled"
                    /\ old.agg = "rejected" =>
                         new.agg = "rejected" /\ new.reason = old.reason
                    /\ old.agg = "pending" /\ new.agg = "rejected" =>
                         \E i \in 1..n :
                           /\ old.st[i] = "pending" /\ new.st[i] = "rejected"
                           /\ new.reason = ModuleError(new.secs[i])
    ]_vars

\* a start of two modules rejected by the second one while the first is
\* still pending
C5_Witness ==
  \E r \in 1..Len(starts) :
    /\ Len(starts[r].st) = 2
    /\ starts[r].st[1] = "pending" /\ starts[r].st[2] = "rejected"
    /\ starts[r].agg = "rejected"
    /\ starts[r].reason = ModuleError(starts[r].secs[2])

\* --------------------------------------------------------------- dispatch

\* the names of nn whose instance has func, in the order of nn
Having(nn, func) ==
  SelectSeq(nn, LAMBDA sec : sec \in DOMAIN allModules /\ hasFunc(allModules[sec], func))

\* the positions of nn with no instance
Missing(nn) == {i \in 1..Len(nn) : nn[i] \notin DOMAIN allModules}

\* the positions of nn whose instance lacks func
Lacking(nn, func) ==
  {i \in 1..Len(nn) : nn[i] \in DOMAIN allModules /\ ~hasFunc(allModules[nn[i]], func)}

C7_ModuleNotFoundAborts ==
  ret.op = "module" /\ Missing(ret.arg.names) # {} =>
    /\ ret.raised = AppError("MODULE_NOT_FOUND")
    /\ ret.shape = "undefined" /\ ret.items = <<>>
    /\ ret.invoked = Having(SubSeq(ret.arg.names, 1, Min(Missing(ret.arg.names)) - 1),
                            ret.func)

\* a batch call that invoked its first module and stopped at the second,
\* which has no instance
C7_Witness ==
  /\ ret.op = "module" /\ ret.arg.given /\ Len(ret.arg.names) = 2
  /\ Missing(ret.arg.names) = {2}
  /\ ret.invoked = <<ret.arg.names[1]>>
  /\ ret.raised = AppError("MODULE_NOT_FOUND")

\* C8: a module() call that raises nothing returns, for a sequence of names,
\* the results in the order of the names with one entry per listed module
\* that has func, and for a single name the one result itself.
C8_ReturnShape ==
  ret.op = "module" /\ ret.raised = NoError =>
    LET sel  == Having(ret.arg.names, ret.func)
        want == [i \in 1..Len(sel) |-> <<sel[i], ret.func>>]
    IN  /\ ret.items = want
        /\ ret.shape = IF ret.arg.given THEN "array" ELSE "value"
        /\ ~ret.arg.given => Len(ret.items) = 1

\* a batch call that returned the results of two different modules
C8_Witness ==
  /\ ret.op = "module" /\ ret.arg.given /\ ret.raised = NoError
  /\ ret.shape = "array" /\ Len(ret.items) = 2
  /\ ret.items[1][1] # ret.items[2][1]

\* ----------------------------------------------------------------- loading

\* C9: after require and init, the instance registry has one instance per
\* name of the module-name set, each constructed from config[name], and no
\* two modules have the same configuration object.
C9_OwnConfigSlice ==
  ret.op = "init" /\ ~ret.arg.given /\ ret.raised = NoError =>
    /\ DOMAIN allModules = Range(modules)
    /\ \A n \in DOMAIN allModules : allModules[n].cfg = config[n]
    /\ \A n \in Range(modules), m \in Range(modules) : n # m => config[n] # config[m]

\* C10: the module-name set never holds a name twice, the class registry
\* holds one class per name, under names of the set only, and a require
\* that returns has registered the class of every name it was given.
C10_NoDuplicateNames ==
  /\ NoDup(modules)
  /\ Range(modules) = DOMAIN config
  /\ DOMAIN AllModules \subseteq Range(modules)
  /\ \A n \in DOMAIN AllModules : AllModules[n] = n
  /\ ret.op = "require" /\ ret.raised = NoError =>
       Range(namesOr(ret.arg, modules)) \subseteq DOMAIN AllModules

\* a require that was given a new name twice, after an earlier require
C10_Witness ==
  /\ ret.op = "require" /\ ret.raised = NoError /\ ncalls = 2
  /\ ret.arg.given /\ ret.arg.names = <<"a", "a">>
  /\ config["a"] = <<"conf", 1>>
  /\ "a" \in DOMAIN AllModules

\* -------------------------------------------------------------- interrupt

\* the slots of the joins signalInterrupt made in which stop() of sec was
\* invoked
SigintStopsOf(sec) ==
  {p \in StopSlots :
     /\ stops[p[1]].sigint
     /\ stops[p[1]].slots[p[2]].sec = sec
     /\ stops[p[1]].slots[p[2]].mod # "none"}

\* C11: whatever start() and stop() calls came before, one SIGINT starts one
\* stop-all: the stop() of a module is invoked at most once per SIGINT
\* delivered, and there is at most one stop-all per SIGINT.
C11_OneStopAllPerSigint ==
  /\ \A sec \in Names : Cardinality(SigintStopsOf(sec)) <= nsignals
  /\ Cardinality({r \in 1..Len(stops) : stops[r].sigint}) <= nsignals

\* C12: once an interrupt has begun a stop-all, the process does not end,
\* by process.exit or by an uncaught exception, while a slot of that
\* stop-all is unsettled.
C12_NoExitBeforeSettled ==
  proc.state \in {"exited", "crashed"} =>
    \A r \in 1..Len(stops) : stops[r].sigint => Settled(stops[r])

\* ------------------------------------------------------------ stop result

\* the names the slots of a join stand for, in the order of the slots
SlotNames(run) == [i \in 1..Len(run.slots) |-> run.slots[i].sec]

\* C13 as stated: the result of stop(names) has one outcome per name of the
\* input, outcome i being the outcome of the i-th name.
C13_OneOutcomePerName ==
  \A r \in 1..Len(stops) : stops[r].agg # "none" => SlotNames(stops[r]) = stops[r].names

\* C13 as amended: the result of stop(names) has one outcome per name of
\* the input other than the main application's name, in the order of the
\* input; a rejection by a module's own stop() carries that module's error.
C13_OneOutcomePerModuleName ==
  \A r \in 1..Len(stops) :
    stops[r].agg # "none" =>
      LET want == SelectSeq(stops[r].names, LAMBDA sec : sec # mainAppName)
          res  == results(stops[r])
      IN  /\ Len(res) = Len(want)
          /\ \A i \in 1..Len(want) :
               /\ stops[r].slots[i].sec = want[i]
               /\ stops[r].slots[i].mod \in {"rejected", "threw"} =>
                    res[i].status = "rejected" /\ res[i].reason = ModuleError(want[i])
               /\ stops[r].slots[i].mod = "fulfilled" => res[i].status = "fulfilled"

\* _stop(['b', 'a']): the stop() of b rejected and the stop() of a fulfilled
C13_Witness ==
  \E r \in 1..Len(stops) :
    /\ stops[r].names = <<"b", "a">>
    /\ stops[r].agg = "fulfilled"
    /\ results(stops[r])[1].status = "rejected"
    /\ results(stops[r])[1].reason = ModuleError("b")
    /\ results(stops[r])[2].status = "fulfilled"

\* ----------------------------------------------------------- stop timeout

\* the timer of a slot runs for the milliseconds of attribute attr of the
\* module's instance, or for 2000 ms when the instance has no such attribute
TimerFollows(attr) ==
  \A p \in StopSlots :
    LET s == stops[p[1]].slots[p[2]]
        a == allModules[s.sec][attr]
    IN  s.timer # "none" => s.tm = IF a = Undefined THEN 2000 ELSE a[1]

UpperOf(c) ==
  IF c \in {"a", "A"} THEN "A" ELSE IF c \in {"b", "B"} THEN "B"
  ELSE IF c \in {"c", "C"} THEN "C" ELSE IF c \in {"j", "J"} THEN "J"
  ELSE IF c \in {"m", "M"} THEN "M" ELSE IF c \in {"s", "S"} THEN "S" ELSE c

\* a name with every hyphen turned into an underscore, in upper case
RECURSIVE PrefixOf(_)
PrefixOf(name) ==
  IF name = <<>> THEN <<>>
  ELSE <<IF Head(name) = "-" THEN "_" ELSE UpperOf(Head(name))>> \o PrefixOf(Tail(name))

\* the error with code {PREFIX}_{code}
ErrorOf(code) == [kind |-> "Error", prefix |-> PrefixOf(appName), code |-> code, of |-> ""]

\* C15: throwError(code, message, justReturn) builds an error whose code is
\* the application's name with hyphens as underscores and in upper case,
\* then '_' and code; it returns the error without raising when justReturn,
\* and raises it without returning otherwise. The errors module() raises
\* are built the same way.
C15_ThrowErrorCode ==
  /\ ret.op = "throwError" =>
       IF ret.justReturn
       THEN ret.returned = ErrorOf(ret.errCode) /\ ret.raised = NoError
       ELSE ret.raised = ErrorOf(ret.errCode) /\ ret.returned = NoError
  /\ ret.op = "module" /\ ret.raised # NoError =>
       ret.raised \in {ErrorOf("MODULE_NOT_FOUND"), ErrorOf("MODULE_FUNCTION_NOT_FOUND")}

\* the application a-b-c gets the error A_B_C_STOP_TIMED_OUT returned
C15_Witness ==
  /\ ret.op = "throwError" /\ ret.justReturn
  /\ appName = <<"a", "-", "b", "-", "c">>
  /\ ret.returned.prefix = <<"A", "_", "B", "_", "C">>
  /\ ret.returned.code = "STOP_TIMED_OUT"
  /\ ret.raised = NoError

\* ------------------------------------------------------------ stop timers

\* C16: once the stop() of a module has settled with its timer not yet
\* fired, the timer callback of that module never runs.
C16_TimerClearedOnSettle ==
  [][\A p \in StopSlots :
       LET s == stops[p[1]].slots[p[2]]
       IN  s.mod \in {"fulfilled", "rejected"} /\ s.timer # "fired" =>
             stops'[p[1]].slots[p[2]].timer # "fired"
    ]_vars
\* a slot's outcome does not change once it is settled
SettledOnce(old, new) ==
  old.slot # "pending" =>
    new.slot = old.slot /\ new.value = old.value /\ new.reason = old.reason

\* the first of the two events decides a pending slot: the timer by a
\* rejection with STOP_TIMED_OUT, the stop() by its own outcome
FirstDecides(old, new) ==
  /\ old.slot = "pending" /\ old.timer = "armed" /\ new.timer = "fired" =>
       new.slot = "rejected" /\ new.reason = ErrorOf("STOP_TIMED_OUT")
  /\ old.slot = "pending" /\ old.mod = "pending" /\ new.mod = "fulfilled" =>
       new.slot = "fulfilled"
  /\ old.slot = "pending" /\ old.mod = "pending" /\ new.mod = "rejected" =>
       new.slot = "rejected" /\ new.reason = ModuleError(old.sec)

\* C17: a stop slot is settled at most once: the first of 'stop() settled'
\* and 'timer fired' decides its outcome, and the later one leaves the
\* outcome as it is.
C17_SlotSettledOnce ==
  [][\A p \in StopSlots :
       /\ SettledOnce(stops[p[1]].slots[p[2]], stops'[p[1]].slots[p[2]])
       /\ FirstDecides(stops[p[1]].slots[p[2]], stops'[p[1]].slots[p[2]])
    ]_vars
\* ------------------------------------------------------------ stop errors

\* C18: a stop() that throws or rejects gives its module a rejected slot
\* with the module's own error; the join of the stop-all never rejects, the
\* stop() of every other module of the list is invoked all the same, and a
\* stop() that settles while its slot is pending decides that slot with its
\* own outcome, whatever the other slots hold.
C18_StopErrorsAreIsolated ==
  [][\A r \in 1..Len(stops') :
       LET run == stops'[r]
       IN  /\ run.agg # "rejected"
           /\ run.agg # "none" =>
                /\ Len(run.slots) = Len(SelectSeq(run.names, LAMBDA sec : sec # mainAppName))
                /\ \A i \in 1..Len(run.slots) :
                     LET new == run.slots[i]
                     IN  /\ allModules[new.sec].stop => new.mod # "none"
                         /\ new.mod = "threw" =>
                              new.slot = "rejected" /\ new.reason = ModuleError(new.sec)
                         /\ r <= Len(stops) =>
                              LET old == stops[r].slots[i]
                              IN  /\ old.slot = "pending" /\ new.mod = "rejected" =>
                                       new.slot = "rejected"
                                       /\ new.reason = ModuleError(new.sec)
                                  /\ old.slot = "pending" /\ new.mod = "fulfilled" =>
                                       new.slot = "fulfilled"
    ]_vars

\* a stop-all of two modules: the stop() of one threw, the stop() of the
\* other was invoked and fulfilled, and the join is fulfilled
C18_Witness ==
  \E r \in 1..Len(stops) :
    /\ Len(stops[r].slots) = 2
    /\ stops[r].slots[1].mod = "threw" /\ stops[r].slots[1].slot = "rejected"
    /\ stops[r].slots[1].reason = ModuleError(stops[r].slots[1].sec)
    /\ stops[r].slots[2].mod = "fulfilled" /\ stops[r].slots[2].slot = "fulfilled"
    /\ stops[r].agg = "fulfilled"
\* ------------------------------------------------------- repeated SIGINT

\* C19: with the application started once, the SIGINT that begins the
\* shutdown leaves the handler unbound as soon as the stop-all is made, and
\* a SIGINT delivered after that runs no signalInterrupt and makes no other
\* stop-all.
C19_NoSecondStopAll ==
  [][nsignals' = nsignals + 1 =>
       /\ listeners' = 0
       /\ (\E r \in 1..Len(stops) : stops[r].sigint) =>
            stops' = stops /\ proc'.by # "signalInterrupt"
    ]_vars

\* a second SIGINT arrived while the stop-all of the first was in progress:
\* there is still one stop-all, and the default action ended the process
C19_Witness ==
  /\ nsignals = 2
  /\ Len(stops) = 1 /\ stops[1].sigint /\ stops[1].agg = "pending"
  /\ \E i \in 1..Len(stops[1].slots) : stops[1].slots[i].mod = "pending"
  /\ listeners = 0
  /\ proc.state = "killed"
\* ---------------------------------------------------------------- startup

\* the configuration keys with no file under srcdir, and the ones whose
\* class has a constructor that fails, by position in the module list
Unresolved == {i \in 1..Len(modules) : modules[i] \notin Resolvable}
Unbuildable ==
  {i \in 1..Len(modules) : modules[i] \in DOMAIN classes /\ classes[modules[i]].throws}

\* C20: when require() cannot resolve a module, or init() cannot construct
\* one, Application.main rejects with that error, no start() of a module is
\* invoked and the interrupt handler is not bound.
C20_FailedBootStartsNothing ==
  mainPm.state # "none" /\ (Unresolved # {} \/ Unbuildable # {}) =>
    /\ mainPm.state = "rejected"
    /\ mainPm.reason = IF Unresolved # {} THEN ResolveError(modules[Min(Unresolved)])
                       ELSE ModuleError(modules[Min(Unbuildable)])
    /\ starts = <<>>
    /\ ret.op = "main" /\ ret.invoked = <<>>
    /\ listeners = 0

\* main rejected with the error of the constructor of a module that has a
\* start function
C20_Witness ==
  /\ mainPm.state = "rejected"
  /\ Unresolved = {} /\ Unbuildable # {}
  /\ mainPm.reason = ModuleError("a")
  /\ classes["a"].start
  /\ allModules = <<>> \/ "a" \notin DOMAIN allModules
  /\ listeners = 0
\* ------------------------------------------------------------ registries

\* the configuration, the module-name set, the class registry and the
\* instance registry
Registries == <<config, modules, AllModules, allModules>>

\* C21: a call of start(), stop() or module() leaves the configuration, the
\* module-name set, the class registry and the instance registry as they
\* are; a step that changes one of them is a call of require() or init().
C21_OnlyRequireAndInitWrite ==
  [][/\ (nruns' # nruns \/ (ret'.op = "module" /\ ret' # ret)) => UNCHANGED Registries
     /\ Registries' # Registries =>
          ncalls' = ncalls + 1 /\ ret'.op \in {"require", "init"}
    ]_vars

\* stop() was called with the module a required and initialized, and a is
\* still in all four
C21_Witness ==
  /\ ret.op = "stop" /\ nruns = 1 /\ Len(stops) = 1
  /\ "a" \in DOMAIN allModules /\ "a" \in DOMAIN AllModules
  /\ "a" \in DOMAIN config /\ "a" \in Range(modules)
  /\ Len(stops[1].slots) = 1
\* every name of the module-name set has an instance
Complete == \A i \in 1..Len(modules) : modules[i] \in DOMAIN allModules

\* C22: once init() has given every name of the module-name set an
\* instance, every later state has an instance for every name of the set,
\* and no later start() or stop() fails on a missing instance.
C22_InstancesStayComplete ==
  [][Complete => Complete' /\ (nruns' # nruns => ret'.raised # TypeError)]_vars
\* ------------------------------------------------------- the main-app entry

\* C23: the instance registered under the main-app name is the application
\* itself, no start-all or stop-all invokes start() or stop() on it whatever
\* names it is given, and no stop result has a slot for the main-app name.
C23_MainAppIsNeverStartedOrStopped ==
  /\ mainAppName \in DOMAIN allModules => allModules[mainAppName].kind = "app"
  /\ \A r \in 1..Len(starts) : mainAppName \notin Range(starts[r].secs)
  /\ \A r \in 1..Len(stops) : mainAppName \notin Range(SlotNames(stops[r]))
  /\ ret.op \in {"start", "_start", "stop", "_stop"} => mainAppName \notin Range(ret.invoked)

\* _start(['mbjs-app', 'a']) on the initialized application invoked the
\* start() of a alone
C23_Witness ==
  /\ ret.op = "_start" /\ ret.arg.names = <<mainAppName, "a">>
  /\ mainAppName \in DOMAIN allModules /\ allModules[mainAppName].start
  /\ ret.invoked = <<"a">>
  /\ Len(starts) = 2 /\ starts[2].secs = <<"a">>
\* ---------------------------------------------------------- a failed start

\* a call of start() or of main that reached start(), failed or not
StartStep ==
  \/ nruns' = nruns + 1 /\ ret'.op = "start"
  \/ mainPm.state = "none" /\ mainPm'.state # "none"
       /\ (mainPm'.state = "rejected" => mainPm'.reason.code = "MODULE")

\* the join of some start-all rejects in this step
StartRejects ==
  \E r \in 1..Len(starts) : starts[r].agg = "pending" /\ starts'[r].agg = "rejected"

\* a module's start() throws in this step
StartThrows ==
  \/ nruns' = nruns + 1 /\ ret'.op = "start" /\ ret'.raised.code = "MODULE"
  \/ mainPm.state = "none" /\ mainPm'.state = "rejected" /\ mainPm'.reason.code = "MODULE"

\* every module name stop-all maps over has its instance
AllBuilt ==
  \A i \in 1..Len(modules) :
     modules[i] # mainAppName => modules[i] \in DOMAIN allModules

\* SIGINT is delivered while the handler is bound
BoundSigint == nsignals' = nsignals + 1 /\ listeners > 0

\* C24: start() binds the interrupt handler whether or not a module's start()
\* then fails, and stops nothing. When the join of the starts rejects the
\* handlers bound stay bound, and one is bound unless a SIGINT came before.
\* When a module's start() throws or the join rejects, nothing is stopped and
\* every module has its instance, then and later. A SIGINT delivered while the handler is bound
\* and every module has its instance runs one stop-all per bound handler over
\* every module name but the main app's.
C24_FailedStartKeepsHandler ==
  [][/\ StartStep => listeners' = listeners + 1 /\ stops' = stops
     /\ StartRejects => listeners' = listeners /\ (nsignals = 0 => listeners > 0)
     /\ StartRejects \/ StartThrows => stops' = stops /\ AllBuilt'
     /\ AllBuilt => AllBuilt'
     /\ BoundSigint /\ AllBuilt =>
          /\ Len(stops') = Len(stops) + listeners
          /\ \A r \in (Len(stops) + 1)..Len(stops') :
               /\ stops'[r].sigint
               /\ SlotNames(stops'[r]) = stopFilter(modules)
    ]_vars

\* main's start-all rejected after the start of one of its modules had
\* succeeded, a second start() threw in its second module, and the SIGINT that
\* followed found both handlers bound and ran stop-all over both modules twice
C24_Witness ==
  /\ mainPm.state = "rejected" /\ mainPm.run \in 1..Len(starts)
  /\ starts[mainPm.run].agg = "rejected"
  /\ \E i \in 1..Len(starts[mainPm.run].st) : starts[mainPm.run].st[i] = "fulfilled"
  /\ ret.op = "start" /\ ret.raised.code = "MODULE" /\ Len(ret.invoked) = 2
  /\ nsignals = 1 /\ listeners = 0 /\ Len(stops) = 2
  /\ \A r \in 1..2 :
       /\ stops[r].sigint /\ Len(stops[r].slots) = 2
       /\ \E i \in 1..2 : stops[r].slots[i].mod # "none"

====
